---- MODULE Spec2Model ----
(***************************************************************************)
(* State-machine model of the two scheduling engines of cam-web-server:    *)
(*   - ImageQueue (services/imageQueue.js): the detection pipeline, i.e.   *)
(*     the capture trigger chain, the FIFO queue and the processQueue      *)
(*     worker loop;                                                        *)
(*   - CollectionScheduler (services/collectionScheduler.js): the          *)
(*     persisted capture-schedule planner.                                 *)
(* Every action is the code that runs between two awaits of one handler    *)
(* or callback (node runs one callback body at a time).                    *)
(***************************************************************************)
EXTENDS Integers, Sequences, FiniteSets, Bags, TLC

\* ------------------------------------------------------------------ bounds
MaxItems == 2
MaxWorkers == 2
MaxChains == 2
MaxCaptureErrors == 1
MaxTime == 10
MaxDrivers == 2
MaxCancelling == 1
MaxOnDemand == 1
MaxDay == 7
MaxTriggers == 6
\* Length of a slot window in check intervals: 60 in the code (3600000 / 60000),
\* scaled down here; every burst still fits in the window with room for re-checks
Hour == 4

\* --------------------------------------------------------------- constants
DefaultInterval == 5000
Configs == [interval : {DefaultInterval}, keepOnlyAnomalies : BOOLEAN]
Outcomes == {"anomaly", "normal", "fail"}
NoItem == 0
Items == 1..MaxItems
\* Time is counted in units of the driver's check interval (60000 ms)
CheckInterval == 1
TotalChoices == {3}
HourChoices == {<<1>>, <<1, 2>>}
\* Calendar days are numbered from day 0, a Sunday; a day has 24 local hours
HoursPerDay == 24
DaysPerWeek == 7
\* The process time zone: gapDay is the day on which local hour GapHour is skipped
\* (clocks go forward), NoGap if there is none in the period; east tells whether
\* local time is ahead of UTC
NoGap == -1
GapHour == 2
TimeZones == [gapDay : {NoGap, 0, 1, 3}, east : BOOLEAN]
UTC == [gapDay |-> NoGap, east |-> FALSE]
\* The resolution the requests to start a collection ask for: the one the
\* documentation recommends, which is not the one the camera service starts with
Resolutions == {"1920x1080"}
\* collectionState.resolution of the default state (the field is absent)
NoResolution == "undefined"
\* The schedule configurations of the collection runs: hours of day 0
ScheduleConfigs ==
  [scheduleType : {"dates"}, dates : {<<0>>}, hours : HourChoices, weekdays : {{}},
   startDate : {0}, endDate : {0}, totalImages : TotalChoices,
   resolution : Resolutions]
NoFolder == <<>>

VARIABLES
  isRunning,      \* this.isRunning
  cfg,            \* this.interval, this.keepOnlyAnomalies
  stats,          \* this.stats
  queue,          \* this.queue (sequence of item ids, oldest first)
  status,         \* item.status of every item created so far ("none": not yet created)
  saved,          \* items written to the detection store by saveImage
  captureTimer,   \* this.captureTimer: "null", or a handle whose timeout is "pending" or "fired"
  orphanTimers,   \* pending capture timeouts whose handle was overwritten in this.captureTimer
  capturing,      \* timer callbacks awaiting this.captureImage()
  starting,       \* start() calls awaiting fs.mkdir
  idling,         \* processQueue() loops in their 100ms wait on an empty queue
  busy,           \* processQueue() loops awaiting predict() or saveImage(): [pc, item]
  nextId,         \* number of the next item to enqueue
  lastAct,        \* history: the step taken last; for start()/stop(), ok is the success
                  \* flag of the value returned (FALSE also when start() throws)
  now,            \* Date.now(), in check intervals
  collectionState,\* this.collectionState
  timer,          \* this.timer: [st, at], st "null", or a handle whose timeout is "pending"
                  \* (due at) or "stale" (fired or cleared)
  orphans,        \* bag of due times of pending driver timeouts no longer held in this.timer
  drivers,        \* bag of the checkAndCapture() invocations that are inside an await
  cstarting,      \* startCollection() calls awaiting fs.mkdir: their schedule and total
  csaving,        \* startCollection() calls awaiting saveSchedule()
  resuming,       \* resumeCollection() calls awaiting saveSchedule()
  cancelling,     \* cancelCollection(true) calls awaiting fs.rm
  slotBursts,     \* history: bursts started for each slot of the current collection
  everPaused,     \* history: the current collection was paused at least once
  cAct,           \* history: the CollectionScheduler step taken last
  disk,           \* collection-schedule.json: <<>> (no file), or <<state>> as last written
  storeOk,        \* environment: writes of collection-schedule.json succeed
  camera,         \* cameraService.width, cameraService.height
  onDemand,       \* POST /api/camera/capture requests awaiting captureFrame()
  gen,            \* history: the last call of generateCaptureSchedule(), its inputs
                  \* (config, now, time zone) and the schedule it returned
  trigger         \* the capture trigger chain on the clock, in ms: [st, clock, start,
                  \* due, k, interval]

qvars == <<isRunning, cfg, stats, queue, status, saved, captureTimer, orphanTimers,
           capturing, starting, idling, busy, nextId, lastAct>>

cvars == <<now, collectionState, timer, orphans, drivers, cstarting, csaving, resuming,
           cancelling, slotBursts, everPaused, cAct, disk, storeOk>>

xvars == <<onDemand, gen, trigger, camera>>

vars == <<qvars, cvars, xvars>>

\* ----------------------------------------------------------- ImageQueue
ZeroStats ==
  [total |-> 0, anomalies |-> 0, normal |-> 0, errors |-> 0]

\* Number of processQueue() loops that have not returned
ActiveWorkers ==
  idling + Cardinality(busy)

\* Number of capture trigger chains: pending timeouts and captures in flight
Chains ==
  (IF captureTimer = "pending" THEN 1 ELSE 0) + orphanTimers + capturing

InitQueue ==
  /\ isRunning = FALSE
  /\ cfg \in {[interval |-> DefaultInterval, keepOnlyAnomalies |-> TRUE]}
  /\ stats = ZeroStats
  /\ queue = <<>>
  /\ status = [i \in Items |-> "none"]
  /\ saved = {}
  /\ captureTimer = "null"
  /\ orphanTimers = 0
  /\ capturing = 0
  /\ starting = 0
  /\ idling = 0
  /\ busy = {}
  /\ nextId = 1
  /\ lastAct = [op |-> "init", item |-> NoItem, ok |-> TRUE]

\* scheduleNextCapture(): the timer state after the call, given this.isRunning
scheduleNextCapture(run, ct, orph) ==
  IF ~run
    THEN [captureTimer |-> ct, orphanTimers |-> orph]
    ELSE [captureTimer |-> "pending",
          orphanTimers |-> IF ct = "pending" THEN orph + 1 ELSE orph]

\* One pass of the while loop of processQueue() from its head to the next await:
\* the loop returns ("none"), idles ("sleep") or shifts the oldest item ("predict")
LoopStep(run, q) ==
  IF ~(run \/ Len(q) > 0)
    THEN [pc |-> "none", item |-> NoItem, queue |-> q]
    ELSE IF Len(q) = 0
      THEN [pc |-> "sleep", item |-> NoItem, queue |-> q]
      ELSE [pc |-> "predict", item |-> Head(q), queue |-> Tail(q)]

\* A loop that was not awaiting an item (idl, bsy: the other loops) makes a pass
\* over the queue q; st is item.status of all items before the pass
WorkerContinues(run, q, st, idl, bsy) ==
  LET n == LoopStep(run, q) IN
  /\ idling' = IF n.pc = "sleep" THEN idl + 1 ELSE idl
  /\ busy' = IF n.pc = "predict" THEN bsy \cup {[pc |-> "predict", item |-> n.item]} ELSE bsy
  /\ queue' = n.queue
  /\ status' = IF n.pc = "predict" THEN [st EXCEPT ![n.item] = "processing"] ELSE st

\* start() with the configuration update and the Stats reset moved above the check
start_ResetBeforeCheck(c) ==
  IF isRunning
    THEN /\ cfg' = c
         /\ stats' = ZeroStats
         /\ lastAct' = [op |-> "start_throw", item |-> NoItem, ok |-> FALSE]
         /\ UNCHANGED <<isRunning, queue, status, saved, captureTimer,
                        orphanTimers, capturing, starting, idling, busy, nextId>>
    ELSE /\ ActiveWorkers + starting < MaxWorkers
         /\ Chains + starting < MaxChains
         /\ cfg' = c
         /\ stats' = ZeroStats
         /\ starting' = starting + 1
         /\ lastAct' = [op |-> "start_begin", item |-> NoItem, ok |-> TRUE]
         /\ UNCHANGED <<isRunning, queue, status, saved, captureTimer, orphanTimers,
                        capturing, idling, busy, nextId>>

\* start(config) up to "await fs.mkdir" (or the throw)
start(c) ==
  IF isRunning
    THEN /\ lastAct' = [op |-> "start_throw", item |-> NoItem, ok |-> FALSE]
         /\ UNCHANGED <<isRunning, cfg, stats, queue, status, saved, captureTimer,
                        orphanTimers, capturing, starting, idling, busy, nextId>>
    ELSE /\ ActiveWorkers + starting < MaxWorkers
         /\ Chains + starting < MaxChains
         /\ cfg' = c
         /\ stats' = ZeroStats
         /\ starting' = starting + 1
         /\ lastAct' = [op |-> "start_begin", item |-> NoItem, ok |-> TRUE]
         /\ UNCHANGED <<isRunning, queue, status, saved, captureTimer, orphanTimers,
                        capturing, idling, busy, nextId>>

Start ==
  /\ \E c \in Configs : start(c)
  /\ UNCHANGED <<cvars, xvars>>

\* start() after fs.mkdir resolved (ok) or rejected
startResume(ok) ==
  /\ starting > 0
  /\ starting' = starting - 1
  /\ IF ok
       THEN LET t == scheduleNextCapture(TRUE, captureTimer, orphanTimers)
            IN /\ isRunning' = TRUE
               /\ captureTimer' = t.captureTimer
               /\ orphanTimers' = t.orphanTimers
               /\ WorkerContinues(TRUE, queue, status, idling, busy)
               /\ lastAct' = [op |-> "start_done", item |-> NoItem, ok |-> TRUE]
       ELSE /\ lastAct' = [op |-> "start_fail", item |-> NoItem, ok |-> FALSE]
            /\ UNCHANGED <<isRunning, captureTimer, orphanTimers, idling, busy, queue, status>>
  /\ UNCHANGED <<cfg, stats, saved, capturing, nextId>>

StartResume ==
  /\ \E ok \in BOOLEAN : startResume(ok)
  /\ UNCHANGED <<cvars, xvars>>

\* stop() without its isRunning check
stop_NoRunningCheck ==
  /\ isRunning' = FALSE
  /\ captureTimer' = "null"
  /\ lastAct' = [op |-> "stop", item |-> NoItem, ok |-> TRUE]
  /\ UNCHANGED <<cfg, stats, queue, status, saved, orphanTimers, capturing,
                 starting, idling, busy, nextId>>

\* stop()
stop ==
  IF ~isRunning
    THEN /\ lastAct' = [op |-> "stop_idle", item |-> NoItem, ok |-> FALSE]
         /\ UNCHANGED <<isRunning, cfg, stats, queue, status, saved, captureTimer,
                        orphanTimers, capturing, starting, idling, busy, nextId>>
    ELSE /\ isRunning' = FALSE
         /\ captureTimer' = "null"
         /\ lastAct' = [op |-> "stop", item |-> NoItem, ok |-> TRUE]
         /\ UNCHANGED <<cfg, stats, queue, status, saved, orphanTimers, capturing,
                        starting, idling, busy, nextId>>

Stop ==
  /\ stop
  /\ UNCHANGED <<cvars, xvars>>

\* A capture trigger that waits until no classification is in flight
TimerFires_WaitsForWorker ==
  /\ \A w \in busy : w.pc # "predict"
  /\ \/ /\ captureTimer = "pending"
        /\ captureTimer' = "fired"
        /\ UNCHANGED orphanTimers
     \/ /\ orphanTimers > 0
        /\ orphanTimers' = orphanTimers - 1
        /\ UNCHANGED captureTimer
  /\ capturing' = capturing + 1
  /\ lastAct' = [op |-> "timer", item |-> NoItem, ok |-> TRUE]
  /\ UNCHANGED <<isRunning, cfg, stats, queue, status, saved, starting, idling, busy, nextId>>
  /\ UNCHANGED <<cvars, xvars>>

\* The timeout set by scheduleNextCapture() fires: the callback calls captureImage()
TimerFires ==
  /\ \/ /\ captureTimer = "pending"
        /\ captureTimer' = "fired"
        /\ UNCHANGED orphanTimers
     \/ /\ orphanTimers > 0
        /\ orphanTimers' = orphanTimers - 1
        /\ UNCHANGED captureTimer
  /\ capturing' = capturing + 1
  /\ lastAct' = [op |-> "timer", item |-> NoItem, ok |-> TRUE]
  /\ UNCHANGED <<isRunning, cfg, stats, queue, status, saved, starting, idling, busy, nextId>>
  /\ UNCHANGED <<cvars, xvars>>

\* A timer callback that calls scheduleNextCapture() inside the try block, after
\* captureImage(): a failed capture ends the trigger chain
captureDone_RearmInsideTry(ok) ==
  /\ capturing > 0
  /\ capturing' = capturing - 1
  /\ IF ok
       THEN /\ nextId <= MaxItems
            /\ LET t == scheduleNextCapture(isRunning, captureTimer, orphanTimers)
               IN /\ captureTimer' = t.captureTimer
                  /\ orphanTimers' = t.orphanTimers
            /\ queue' = Append(queue, nextId)
            /\ status' = [status EXCEPT ![nextId] = "pending"]
            /\ nextId' = nextId + 1
            /\ lastAct' = [op |-> "capture_ok", item |-> nextId, ok |-> TRUE]
            /\ UNCHANGED stats
       ELSE /\ stats.errors < MaxCaptureErrors
            /\ stats' = [stats EXCEPT !.errors = @ + 1]
            /\ lastAct' = [op |-> "capture_fail", item |-> NoItem, ok |-> FALSE]
            /\ UNCHANGED <<queue, status, nextId, captureTimer, orphanTimers>>
  /\ UNCHANGED <<isRunning, cfg, saved, starting, idling, busy>>

\* cameraService.captureFrame() settles inside captureImage(); the timer callback
\* then counts the error, if any, and calls scheduleNextCapture()
captureDone(ok) ==
  /\ capturing > 0
  /\ capturing' = capturing - 1
  /\ LET t == scheduleNextCapture(isRunning, captureTimer, orphanTimers)
     IN /\ captureTimer' = t.captureTimer
        /\ orphanTimers' = t.orphanTimers
  /\ IF ok
       THEN /\ nextId <= MaxItems
            /\ queue' = Append(queue, nextId)
            /\ status' = [status EXCEPT ![nextId] = "pending"]
            /\ nextId' = nextId + 1
            /\ lastAct' = [op |-> "capture_ok", item |-> nextId, ok |-> TRUE]
            /\ UNCHANGED stats
       ELSE /\ stats.errors < MaxCaptureErrors
            /\ stats' = [stats EXCEPT !.errors = @ + 1]
            /\ lastAct' = [op |-> "capture_fail", item |-> NoItem, ok |-> FALSE]
            /\ UNCHANGED <<queue, status, nextId>>
  /\ UNCHANGED <<isRunning, cfg, saved, starting, idling, busy>>

CaptureDone ==
  /\ \E ok \in BOOLEAN : captureDone(ok)
  /\ UNCHANGED <<cvars, xvars>>

\* The 100ms idle wait of a processQueue() loop is over
WorkerWakes ==
  /\ idling > 0
  /\ WorkerContinues(isRunning, queue, status, idling - 1, busy)
  /\ lastAct' = [op |-> "wake", item |-> NoItem, ok |-> TRUE]
  /\ UNCHANGED <<isRunning, cfg, stats, saved, captureTimer, orphanTimers, capturing,
                 starting, nextId>>
  /\ UNCHANGED <<cvars, xvars>>

\* Stats with total counted in the anomaly branch only
statsOnResult_TotalOnlyOnAnomaly(s, isAnomaly) ==
  IF isAnomaly
    THEN [s EXCEPT !.total = @ + 1, !.anomalies = @ + 1]
    ELSE [s EXCEPT !.normal = @ + 1]

\* Stats after a prediction that returned a result
statsOnResult(s, isAnomaly) ==
  IF isAnomaly
    THEN [s EXCEPT !.total = @ + 1, !.anomalies = @ + 1]
    ELSE [s EXCEPT !.total = @ + 1, !.normal = @ + 1]

\* A processQueue() that saves every classified image, whatever keepOnlyAnomalies is
savesImage_IgnoresKeepOnly(isAnomaly, keepOnly) ==
  TRUE

\* Does processQueue() call saveImage() for this result?
savesImage(isAnomaly, keepOnly) ==
  isAnomaly \/ ~keepOnly

\* A catch block that puts the failed item back on the queue for a retry
onProcessingError_Requeue(s, st, q, i) ==
  [stats |-> [s EXCEPT !.errors = @ + 1],
   status |-> [st EXCEPT ![i] = "error"],
   queue |-> Append(q, i)]

\* The catch block of processQueue(): Stats, item.status and the queue after it
onProcessingError(s, st, q, i) ==
  [stats |-> [s EXCEPT !.errors = @ + 1],
   status |-> [st EXCEPT ![i] = "error"],
   queue |-> q]

\* torchserveClient.predict() settles for the loop w (an element of busy)
predictDone(w, outcome) ==
  LET i == w.item IN
  /\ w.pc = "predict"
  /\ IF outcome = "fail"
       THEN LET e == onProcessingError(stats, status, queue, i)
            IN /\ stats' = e.stats
               /\ WorkerContinues(isRunning, e.queue, e.status, idling, busy \ {w})
               /\ lastAct' = [op |-> "predict_fail", item |-> i, ok |-> FALSE]
       ELSE /\ stats' = statsOnResult(stats, outcome = "anomaly")
            /\ lastAct' = [op |-> "predict_ok", item |-> i, ok |-> TRUE]
            /\ IF savesImage(outcome = "anomaly", cfg.keepOnlyAnomalies)
                 THEN /\ busy' = (busy \ {w}) \cup {[pc |-> "save", item |-> i]}
                      /\ status' = [status EXCEPT ![i] = "completed"]
                      /\ UNCHANGED <<queue, idling>>
                 ELSE WorkerContinues(isRunning, queue,
                                      [status EXCEPT ![i] = "completed"], idling, busy \ {w})
  /\ UNCHANGED <<isRunning, cfg, saved, captureTimer, orphanTimers, capturing, starting,
                 nextId>>

PredictDone ==
  /\ \E w \in busy, outcome \in Outcomes : predictDone(w, outcome)
  /\ UNCHANGED <<cvars, xvars>>

\* fs.writeFile() of saveImage() settles for the loop w (an element of busy)
saveDone(w, ok) ==
  LET i == w.item IN
  /\ w.pc = "save"
  /\ IF ok
       THEN /\ saved' = saved \cup {i}
            /\ WorkerContinues(isRunning, queue, status, idling, busy \ {w})
            /\ lastAct' = [op |-> "save_ok", item |-> i, ok |-> TRUE]
            /\ UNCHANGED stats
       ELSE LET e == onProcessingError(stats, status, queue, i)
            IN /\ stats' = e.stats
               /\ WorkerContinues(isRunning, e.queue, e.status, idling, busy \ {w})
               /\ lastAct' = [op |-> "save_fail", item |-> i, ok |-> FALSE]
               /\ UNCHANGED saved
  /\ UNCHANGED <<isRunning, cfg, captureTimer, orphanTimers, capturing, starting, nextId>>

SaveDone ==
  /\ \E w \in busy, ok \in BOOLEAN : saveDone(w, ok)
  /\ UNCHANGED <<cvars, xvars>>

\* ------------------------------------------------- claims on ImageQueue
InFlight ==
  {w \in busy : w.pc = "predict"}

Drained ==
  Len(queue) = 0 /\ busy = {}

TerminalStatus ==
  {"completed", "error"}

\* C1: at most one predict() call is in flight at any time, in every state
\* reachable by start(), stop(), capture completions and prediction completions.
C1_OnePredictInFlight ==
  Cardinality(InFlight) <= 1

\* C2: items reach a terminal status (completed or error) in the order in which
\* captureImage enqueued them: items are numbered in enqueue order, and no item is
\* terminal while an item enqueued before it is not.
C2_CompletionOrderIsEnqueueOrder ==
  \A a, b \in Items :
    (a < b /\ status[b] \in TerminalStatus) => status[a] \in TerminalStatus

\* C6: start() on a Running pipeline fails and changes nothing: Stats are not reset,
\* the configuration is not changed, no capture trigger or worker is added.
C6_StartOnRunningChangesNothing ==
  [][(isRunning /\ lastAct'.op \in {"start_throw", "start_begin"}) =>
       /\ lastAct'.op = "start_throw"
       /\ ~lastAct'.ok
       /\ UNCHANGED <<isRunning, cfg, stats, queue, status, saved, captureTimer,
                      orphanTimers, capturing, starting, idling, busy, nextId>>]_vars

C6_Witness ==
  /\ lastAct.op = "start_throw"
  /\ stats.total > 0
  /\ ~cfg.keepOnlyAnomalies
  /\ captureTimer = "pending"

\* C7 (as stated): stop() on an Idle pipeline is a no-op that returns success and
\* leaves Stats, queue and timers unchanged.
C7_StopOnIdleReturnsSuccess ==
  [][(~isRunning /\ lastAct'.op \in {"stop", "stop_idle"}) =>
       /\ lastAct'.ok
       /\ UNCHANGED <<stats, queue, captureTimer, orphanTimers>>]_vars

\* C7 (amended): stop() on an Idle pipeline is a no-op that returns success=false
\* ("Queue not running") and leaves Stats, queue, timers and all other state unchanged.
C7_StopOnIdleIsNoop ==
  [][(~isRunning /\ lastAct'.op \in {"stop", "stop_idle"}) =>
       /\ lastAct'.op = "stop_idle"
       /\ ~lastAct'.ok
       /\ UNCHANGED <<isRunning, cfg, stats, queue, status, saved, captureTimer,
                      orphanTimers, capturing, starting, idling, busy, nextId>>]_vars

C7_Witness ==
  /\ lastAct.op = "stop_idle"
  /\ stats.total > 0
  /\ Len(queue) > 0
  /\ captureTimer = "null"

\* C8: after stop() returns, and until the next successful start(), no capture is
\* started and no capture trigger is armed (pending); a capture in flight at stop()
\* completes without re-arming the trigger.
C8_NoTriggerAfterStop ==
  [][(~isRunning /\ ~isRunning') =>
       /\ capturing' <= capturing
       /\ captureTimer' # "pending"
       /\ orphanTimers' = 0]_vars

\* C9: Stats.total = Stats.anomalies + Stats.normal whenever the queue is fully
\* drained (nothing pending or in flight), for either value of keepOnlyAnomalies.
C9_TotalIsAnomaliesPlusNormal ==
  Drained => stats.total = stats.anomalies + stats.normal

C9_Witness ==
  /\ Drained
  /\ cfg.keepOnlyAnomalies
  /\ stats.anomalies = 1
  /\ stats.normal = 1
  /\ stats.total = 2

C13_PersistencePolicy ==
  /\ [](\A i \in saved : status[i] = "completed")
  /\ [][lastAct'.op = "predict_ok" /\ stats'.total # stats.total =>
         LET i == lastAct'.item
             isAnomaly == stats'.anomalies > stats.anomalies
         IN /\ isAnomaly => [pc |-> "save", item |-> i] \in busy'
            /\ ~isAnomaly =>
                 ([pc |-> "save", item |-> i] \in busy' <=> ~cfg.keepOnlyAnomalies)]_vars
  /\ [][saved' # saved =>
         /\ lastAct'.op = "save_ok"
         /\ [pc |-> "save", item |-> lastAct'.item] \in busy
         /\ saved' = saved \cup {lastAct'.item}]_vars
  /\ [][lastAct'.op = "save_ok" /\ busy' # busy => lastAct'.item \in saved']_vars

C13_Witness ==
  /\ lastAct.op = "save_ok"
  /\ cfg.keepOnlyAnomalies
  /\ stats.anomalies = 1
  /\ stats.normal = 1
  /\ Cardinality(saved) = 1
  /\ Drained

\* C28: cooperative cancellation: once the pipeline is stopped, and unless it is
\* started again, every queued item is eventually taken and classified and all
\* processQueue() loops return, provided awaited predictions, writes and captures
\* settle (the result of a capture or classification in flight at stop() included).
C28_StoppedPipelineDrains ==
  (~isRunning) ~> (isRunning \/ (Drained /\ ActiveWorkers = 0))

\* C31: Stats are all zero when a successful start() returns, stop() leaves them
\* unchanged, and no other step than a start() lowers a counter.
C31_StatsResetOnStart ==
  [][/\ lastAct'.op = "start_done" => stats' = ZeroStats
     /\ lastAct'.op \in {"stop", "stop_idle"} => stats' = stats
     /\ lastAct'.op \notin {"start_begin", "start_done"} =>
          /\ stats'.total >= stats.total
          /\ stats'.anomalies >= stats.anomalies
          /\ stats'.normal >= stats.normal
          /\ stats'.errors >= stats.errors]_vars

\* C34: at most one capture trigger chain exists at any time: at most one of a
\* pending capture timeout and a triggered capture in flight.
C34_OneTriggerChain ==
  Chains <= 1

\* C36: every dequeued item is accounted exactly once: a prediction that returns
\* counts it in total and leaves it completed, a prediction that fails counts it in
\* errors and leaves it in error, and the saving of its image, failed or not,
\* changes neither the counters nor that status.
C36_ItemAccountedOnce ==
  [][/\ lastAct'.op = "predict_ok" =>
          /\ stats'.total = stats.total + 1
          /\ stats'.errors = stats.errors
          /\ status'[lastAct'.item] = "completed"
     /\ lastAct'.op = "predict_fail" =>
          /\ stats'.total = stats.total
          /\ stats'.errors = stats.errors + 1
          /\ status'[lastAct'.item] = "error"
     /\ lastAct'.op \in {"save_ok", "save_fail"} =>
          /\ stats' = stats
          /\ status'[lastAct'.item] = "completed"]_vars

\* C37: two overlapping start() calls cannot both succeed: a start() completes
\* successfully only on a pipeline that is not running, so that a stop() lies
\* between any two successful completions.
C37_OneStartSucceeds ==
  [][lastAct'.op = "start_done" => ~isRunning]_vars

\* --------------------------------------------------- CollectionScheduler
Min(a, b) ==
  IF a <= b THEN a ELSE b

\* Math.ceil(a / b)
Ceil(a, b) ==
  (a + b - 1) \div b

\* s with slot x put after the last slot whose timestamp is not greater
InsertSlot(s, x) ==
  LET k == Cardinality({j \in 1..Len(s) : s[j].timestamp <= x.timestamp})
  IN SubSeq(s, 1, k) \o <<x>> \o SubSeq(s, k + 1, Len(s))

RECURSIVE SortAscending(_)
\* schedule.sort((a, b) => a.timestamp - b.timestamp): a stable sort, slots with
\* equal timestamps keep their order
SortAscending(s) ==
  IF Len(s) = 0 THEN <<>>
  ELSE InsertSlot(SortAscending(SubSeq(s, 1, Len(s) - 1)), s[Len(s)])

\* new Date(dateStr + 'T00:00:00'): the instant, in hours, of local midnight of day d
\* (days after the skipped hour start one hour earlier)
LocalMidnight(tz, d) ==
  HoursPerDay * d - (IF tz.gapDay # NoGap /\ d > tz.gapDay THEN 1 ELSE 0)

\* captureTime.setHours(hour, 0, 0, 0) on day d: the instant, in check intervals,
\* of local hour h; the skipped local hour is the instant of the hour after it
setHours(tz, d, h) ==
  Hour * (LocalMidnight(tz, d) + (IF d = tz.gapDay /\ h > GapHour THEN h - 1 ELSE h))

\* d.getDay(): 0 is Sunday
getDay(d) ==
  d % DaysPerWeek

\* d.toISOString().split('T')[0]: the UTC date of local midnight of day d
toISODate(tz, d) ==
  IF tz.east THEN d - 1 ELSE d

\* A weekday loop that stops before endDate (d < endDate at midnight)
ScheduleDays_EndExclusive(config) ==
  IF config.scheduleType = "dates"
    THEN config.dates
    ELSE SelectSeq([i \in 1..(config.endDate - config.startDate) |->
                      config.startDate + i - 1],
                   LAMBDA d : getDay(d) \in config.weekdays)

\* The days the loops of generateCaptureSchedule() visit, in order
ScheduleDays(config) ==
  IF config.scheduleType = "dates"
    THEN config.dates
    ELSE SelectSeq([i \in 1..(config.endDate - config.startDate + 1) |->
                      config.startDate + i - 1],
                   LAMBDA d : getDay(d) \in config.weekdays)

\* The slot pushed for day d and hour h
Slot(config, tz, d, h) ==
  [timestamp |-> setHours(tz, d, h), hour |-> h,
   date |-> IF config.scheduleType = "dates" THEN d ELSE toISODate(tz, d)]

\* A filter that also keeps the instant equal to now (captureTime >= now)
generateCaptureSchedule_KeepsNow(config, t, tz) ==
  LET days == ScheduleDays(config)
      m == Len(config.hours)
      all == [k \in 1..(Len(days) * m) |->
                Slot(config, tz, days[((k - 1) \div m) + 1], config.hours[((k - 1) % m) + 1])]
  IN SortAscending(SelectSeq(all, LAMBDA x : x.timestamp >= t))

\* generateCaptureSchedule(config) called at time t in time zone tz: days x hours in
\* loop order, the slots strictly after t, sorted by timestamp
generateCaptureSchedule(config, t, tz) ==
  LET days == ScheduleDays(config)
      m == Len(config.hours)
      all == [k \in 1..(Len(days) * m) |->
                Slot(config, tz, days[((k - 1) \div m) + 1], config.hours[((k - 1) % m) + 1])]
  IN SortAscending(SelectSeq(all, LAMBDA x : x.timestamp > t))

\* The timestamps of a schedule
Timestamps(schedule) ==
  [k \in 1..Len(schedule) |-> schedule[k].timestamp]

\* Folder name: training_data_<totalImages>_<timestamp of the first slot>
FolderOf(total, sched) ==
  <<total, sched[1]>>

InactiveState ==
  [active |-> FALSE, paused |-> FALSE, collectedCount |-> 0, totalCount |-> 0,
   folder |-> NoFolder, captureSchedule |-> <<>>, resolution |-> NoResolution]

NullTimer ==
  [st |-> "null", at |-> 0]

NoDriver ==
  [pc |-> "none", slot |-> 0, n |-> 0, i |-> 0, at |-> 0, delay |-> 0, folder |-> NoFolder]

\* Driver chains that exist or are about to be started
DriverChains ==
  BagCardinality(drivers) + (IF timer.st = "pending" THEN 1 ELSE 0)
    + BagCardinality(orphans) + Len(cstarting) + csaving + resuming

InitCollection ==
  /\ now = 0
  /\ collectionState = InactiveState
  /\ timer = NullTimer
  /\ orphans = EmptyBag
  /\ drivers = EmptyBag
  /\ cstarting = <<>>
  /\ csaving = 0
  /\ resuming = 0
  /\ cancelling = 0
  /\ slotBursts = <<>>
  /\ everPaused = FALSE
  /\ cAct = "init"
  /\ disk = <<>>
  /\ storeOk = TRUE

\* saveSchedule() called with state cs: the file afterwards. The state is
\* serialised when the call is made; a failed write is logged and leaves the file
saveSchedule(cs) ==
  IF storeOk THEN <<cs>> ELSE disk

\* A loadSchedule() that drops the paused flag of the saved state
loadSchedule_Unpaused ==
  IF disk = <<>> THEN InactiveState ELSE [disk[1] EXCEPT !.paused = FALSE]

\* loadSchedule(): saved.state || this.collectionState, on the default state
loadSchedule ==
  IF disk = <<>> THEN InactiveState ELSE disk[1]

\* schedule.findIndex(s => s.timestamp > now), 0 standing for -1
NextSlotIndex(sched, t) ==
  IF \E k \in 1..Len(sched) : sched[k] > t
    THEN CHOOSE k \in 1..Len(sched) : sched[k] > t /\ \A j \in 1..(k - 1) : sched[j] <= t
    ELSE 0

\* if (this.timer) { clearTimeout(this.timer); this.timer = null }
ClearTimer(tm) ==
  NullTimer

\* if (this.timer) clearTimeout(this.timer), of startScheduledCaptures()
StopTimer(tm) ==
  IF tm.st = "pending" THEN [st |-> "stale", at |-> 0] ELSE tm

\* this.timer = setTimeout(..., delay) at time t: the handle and the orphaned timeouts
Rearm(tm, orph, delay, t) ==
  [timer |-> [st |-> "pending", at |-> t + delay],
   orphans |-> IF tm.st = "pending" THEN orph (+) SetToBag({tm.at}) ELSE orph]

\* A completeCollection() that leaves the collection active
completeCollection_KeepsActive(cs) ==
  [cs EXCEPT !.paused = FALSE]

\* The body of completeCollection() before its saveSchedule()
completeCollection(cs) ==
  [cs EXCEPT !.active = FALSE, !.paused = FALSE]

\* imagesToCapture of captureImages()
ImagesToCapture(cs) ==
  Min(Ceil(cs.totalCount, Len(cs.captureSchedule)), cs.totalCount - cs.collectedCount)

\* A loop head that checks active only, not paused
LoopHead_NoPauseCheck(cs, d, i) ==
  IF i < d.n /\ cs.active
    THEN [d EXCEPT !.pc = "capture", !.i = i, !.at = 0, !.folder = NoFolder]
    ELSE [d EXCEPT !.pc = "saveBurst", !.i = i, !.at = 0, !.folder = NoFolder]

\* Head of the for loop of captureImages() for capture i (0-based) of n: the loop
\* awaits the next captureFrame(), or it ends and awaits saveSchedule()
LoopHead(cs, d, i) ==
  IF i < d.n /\ cs.active /\ ~cs.paused
    THEN [d EXCEPT !.pc = "capture", !.i = i, !.at = 0, !.folder = NoFolder]
    ELSE [d EXCEPT !.pc = "saveBurst", !.i = i, !.at = 0, !.folder = NoFolder]

\* new CameraService({ width: 1280, height: 720, ... }) of server.js
CameraOptions ==
  [width |-> 1280, height |-> 720]

\* resolution.split('x').map(Number): width and height of "<width>x<height>"
ParseResolution(res) ==
  CASE res = "1280x720" -> [width |-> 1280, height |-> 720]
    [] res = "1920x1080" -> [width |-> 1920, height |-> 1080]

\* The camera's width and height after an invocation went on to e with state cs:
\* captureAndSaveImage() sets them from cs.resolution before it calls captureFrame()
SetResolution(e, cs) ==
  IF e.pc = "capture" THEN ParseResolution(cs.resolution) ELSE camera

\* The file after the loop of captureImages() went on to e with state cs:
\* saveSchedule() is called once the loop has ended
SaveAtLoopEnd(e, cs) ==
  IF e.pc = "saveBurst" THEN saveSchedule(cs) ELSE disk

\* checkAndCapture() called at time t, from its entry to its first await:
\* the collection state, the timer and the invocation's own state after it
checkAndCapture(cs, tm, orph, t) ==
  IF ~cs.active \/ cs.paused
    THEN [cs |-> cs, timer |-> tm, orphans |-> orph, driver |-> NoDriver, op |-> "check_return"]
    ELSE
      LET sched == cs.captureSchedule
          nx == NextSlotIndex(sched, t)
      IN IF nx = 0
           THEN [cs |-> completeCollection(cs), timer |-> ClearTimer(tm), orphans |-> orph,
                 driver |-> NoDriver, op |-> "check_complete"]
           ELSE
             LET delay == Min(sched[nx] - t, CheckInterval)
             IN IF nx > 1 /\ t >= sched[nx - 1] /\ t < sched[nx - 1] + Hour
                  THEN IF cs.collectedCount >= cs.totalCount
                         THEN [cs |-> completeCollection(cs), timer |-> ClearTimer(tm),
                               orphans |-> orph,
                               driver |-> [NoDriver EXCEPT !.pc = "completeBurst",
                                                           !.slot = nx - 1, !.delay = delay],
                               op |-> "check_budget_spent"]
                         ELSE [cs |-> cs, timer |-> tm, orphans |-> orph,
                               driver |-> LoopHead(cs, [NoDriver EXCEPT !.slot = nx - 1,
                                                          !.n = ImagesToCapture(cs),
                                                          !.delay = delay], 0),
                               op |-> "check_burst"]
                  ELSE LET r == Rearm(tm, orph, delay, t)
                       IN [cs |-> cs, timer |-> r.timer, orphans |-> r.orphans,
                           driver |-> NoDriver, op |-> "check_rearm"]

\* The invocations after a new one, d, reached its first await
Spawn(drv, d) ==
  IF d.pc = "none" THEN drv ELSE drv (+) SetToBag({d})

\* The invocations after invocation d went on to e (pc "none": it returned)
Continue(drv, d, e) ==
  Spawn(drv (-) SetToBag({d}), e)

\* History: one more burst started for slot k of the current collection
\* (the count stops at 2, "more than one")
NoteBurst(sc, k) ==
  IF k \in 1..Len(sc) THEN [sc EXCEPT ![k] = Min(@ + 1, 2)] ELSE sc

\* A call of checkAndCapture() with the timer handle tm
RunCheck(tm, orph) ==
  LET r == checkAndCapture(collectionState, tm, orph, now) IN
  /\ collectionState' = r.cs
  /\ timer' = r.timer
  /\ orphans' = r.orphans
  /\ drivers' = Spawn(drivers, r.driver)
  /\ slotBursts' = IF r.op = "check_burst" THEN NoteBurst(slotBursts, r.driver.slot)
                                            ELSE slotBursts
  /\ disk' = IF r.op \in {"check_complete", "check_budget_spent", "check_rearm"}
                  \/ r.driver.pc = "saveBurst"
               THEN saveSchedule(r.cs) ELSE disk
  /\ camera' = SetResolution(r.driver, r.cs)
  /\ cAct' = r.op

\* A timeout set by checkAndCapture() fires
DriverTimerFires ==
  /\ \/ /\ timer.st = "pending" /\ timer.at <= now
        /\ RunCheck([st |-> "stale", at |-> 0], orphans)
     \/ \E t \in BagToSet(orphans) :
          /\ t <= now
          /\ RunCheck(timer, orphans (-) SetToBag({t}))
  /\ UNCHANGED <<now, cstarting, csaving, resuming, cancelling, everPaused>>
  /\ UNCHANGED <<qvars, onDemand, gen, trigger, storeOk>>

\* A startCollection() that records totalCount before it checks the schedule
startCollection_StateBeforeCheck(config) ==
  LET sched == Timestamps(generateCaptureSchedule(config, now, UTC)) IN
  /\ IF collectionState.active
       THEN /\ cAct' = "start_active"
            /\ UNCHANGED <<cstarting, collectionState>>
       ELSE IF Len(sched) = 0
         THEN /\ cAct' = "start_noslots"
              /\ collectionState' = [collectionState EXCEPT !.totalCount = config.totalImages,
                                                            !.collectedCount = 0]
              /\ UNCHANGED cstarting
         ELSE /\ DriverChains < MaxDrivers
              /\ cstarting' = Append(cstarting, [total |-> config.totalImages, sched |-> sched,
                                                  resolution |-> config.resolution])
              /\ cAct' = "start_mkdir"
              /\ UNCHANGED collectionState
  /\ UNCHANGED <<now, timer, orphans, drivers, csaving, resuming,
                 cancelling, slotBursts, everPaused, disk>>

\* A startCollection() without the check of collectionState.active
startCollection_NoActiveCheck(config) ==
  LET sched == Timestamps(generateCaptureSchedule(config, now, UTC)) IN
  /\ IF Len(sched) = 0
       THEN /\ cAct' = "start_noslots"
            /\ UNCHANGED cstarting
       ELSE /\ DriverChains < MaxDrivers
            /\ cstarting' = Append(cstarting, [total |-> config.totalImages, sched |-> sched,
                                                  resolution |-> config.resolution])
            /\ cAct' = "start_mkdir"
  /\ UNCHANGED <<now, collectionState, timer, orphans, drivers, csaving, resuming,
                 cancelling, slotBursts, everPaused, disk>>

\* startCollection(config) up to "await fs.mkdir" (or a throw)
startCollection(config) ==
  LET sched == Timestamps(generateCaptureSchedule(config, now, UTC)) IN
  /\ IF collectionState.active
       THEN /\ cAct' = "start_active"
            /\ UNCHANGED cstarting
       ELSE IF Len(sched) = 0
         THEN /\ cAct' = "start_noslots"
              /\ UNCHANGED cstarting
         ELSE /\ DriverChains < MaxDrivers
              /\ cstarting' = Append(cstarting, [total |-> config.totalImages, sched |-> sched,
                                                  resolution |-> config.resolution])
              /\ cAct' = "start_mkdir"
  /\ UNCHANGED <<now, collectionState, timer, orphans, drivers, csaving, resuming,
                 cancelling, slotBursts, everPaused, disk>>

StartCollection ==
  /\ \E config \in ScheduleConfigs : startCollection(config)
  /\ UNCHANGED <<qvars, xvars, storeOk>>

\* startCollection() after fs.mkdir settled, up to "await this.saveSchedule()"
startCollectionMkdirDone(k, ok) ==
  /\ k \in 1..Len(cstarting)
  /\ cstarting' = [j \in 1..(Len(cstarting) - 1) |->
                     IF j < k THEN cstarting[j] ELSE cstarting[j + 1]]
  /\ IF ok
       THEN /\ collectionState' =
                 [active |-> TRUE, paused |-> FALSE, collectedCount |-> 0,
                  totalCount |-> cstarting[k].total,
                  folder |-> FolderOf(cstarting[k].total, cstarting[k].sched),
                  captureSchedule |-> cstarting[k].sched,
                  resolution |-> cstarting[k].resolution]
            /\ disk' = saveSchedule(collectionState')
            /\ csaving' = csaving + 1
            /\ slotBursts' = [j \in 1..Len(cstarting[k].sched) |-> 0]
            /\ everPaused' = FALSE
            /\ cAct' = "start_state"
       ELSE /\ cAct' = "start_mkdir_failed"
            /\ UNCHANGED <<collectionState, csaving, slotBursts, everPaused, disk>>
  /\ UNCHANGED <<now, timer, orphans, drivers, resuming, cancelling>>

StartCollectionMkdirDone ==
  /\ \E k \in 1..Len(cstarting), ok \in BOOLEAN : startCollectionMkdirDone(k, ok)
  /\ UNCHANGED <<qvars, xvars, storeOk>>

\* startCollection() after saveSchedule(): startScheduledCaptures()
StartCollectionSaved ==
  /\ csaving > 0
  /\ csaving' = csaving - 1
  /\ RunCheck(StopTimer(timer), orphans)
  /\ UNCHANGED <<now, cstarting, resuming, cancelling, everPaused>>
  /\ UNCHANGED <<qvars, onDemand, gen, trigger, storeOk>>

\* A pauseCollection() that undoes the pause and throws when the write fails
PauseCollection_RollsBack ==
  /\ IF ~collectionState.active \/ ~storeOk
       THEN /\ cAct' = "pause_throw"
            /\ UNCHANGED <<collectionState, timer, everPaused, disk>>
       ELSE /\ collectionState' = [collectionState EXCEPT !.paused = TRUE]
            /\ disk' = saveSchedule(collectionState')
            /\ timer' = ClearTimer(timer)
            /\ everPaused' = TRUE
            /\ cAct' = "pause"
  /\ UNCHANGED <<now, orphans, drivers, cstarting, csaving, resuming, cancelling, slotBursts>>
  /\ UNCHANGED <<qvars, xvars, storeOk>>

\* A pauseCollection() without the check of collectionState.active
PauseCollection_NoActiveCheck ==
  /\ collectionState' = [collectionState EXCEPT !.paused = TRUE]
  /\ disk' = saveSchedule(collectionState')
  /\ timer' = ClearTimer(timer)
  /\ everPaused' = TRUE
  /\ cAct' = "pause"
  /\ UNCHANGED <<now, orphans, drivers, cstarting, csaving, resuming, cancelling, slotBursts>>
  /\ UNCHANGED <<qvars, xvars, storeOk>>

\* pauseCollection()
PauseCollection ==
  /\ IF ~collectionState.active
       THEN /\ cAct' = "pause_throw"
            /\ UNCHANGED <<collectionState, timer, everPaused, disk>>
       ELSE /\ collectionState' = [collectionState EXCEPT !.paused = TRUE]
            /\ disk' = saveSchedule(collectionState')
            /\ timer' = ClearTimer(timer)
            /\ everPaused' = TRUE
            /\ cAct' = "pause"
  /\ UNCHANGED <<now, orphans, drivers, cstarting, csaving, resuming, cancelling, slotBursts>>
  /\ UNCHANGED <<qvars, xvars, storeOk>>

\* A resumeCollection() that starts the count again
ResumeCollection_ResetsCount ==
  /\ IF ~collectionState.active \/ ~collectionState.paused
       THEN /\ cAct' = "resume_throw"
            /\ UNCHANGED <<collectionState, resuming, disk>>
       ELSE /\ DriverChains < MaxDrivers
            /\ collectionState' = [collectionState EXCEPT !.paused = FALSE,
                                                          !.collectedCount = 0]
            /\ disk' = saveSchedule(collectionState')
            /\ resuming' = resuming + 1
            /\ cAct' = "resume"
  /\ UNCHANGED <<now, timer, orphans, drivers, cstarting, csaving, cancelling, slotBursts,
                 everPaused>>
  /\ UNCHANGED <<qvars, xvars, storeOk>>

\* resumeCollection() up to "await this.saveSchedule()"
ResumeCollection ==
  /\ IF ~collectionState.active \/ ~collectionState.paused
       THEN /\ cAct' = "resume_throw"
            /\ UNCHANGED <<collectionState, resuming, disk>>
       ELSE /\ DriverChains < MaxDrivers
            /\ collectionState' = [collectionState EXCEPT !.paused = FALSE]
            /\ disk' = saveSchedule(collectionState')
            /\ resuming' = resuming + 1
            /\ cAct' = "resume"
  /\ UNCHANGED <<now, timer, orphans, drivers, cstarting, csaving, cancelling, slotBursts,
                 everPaused>>
  /\ UNCHANGED <<qvars, xvars, storeOk>>

\* resumeCollection() after saveSchedule(): startScheduledCaptures()
ResumeCollectionSaved ==
  /\ resuming > 0
  /\ resuming' = resuming - 1
  /\ RunCheck(StopTimer(timer), orphans)
  /\ UNCHANGED <<now, cstarting, csaving, cancelling, everPaused>>
  /\ UNCHANGED <<qvars, onDemand, gen, trigger, storeOk>>

\* cancelCollection(deleteImages) up to "await fs.rm", or to the end without it
cancelCollection(deleteImages) ==
  /\ IF ~collectionState.active
       THEN /\ cAct' = "cancel_throw"
            /\ UNCHANGED <<collectionState, timer, cancelling, slotBursts, disk>>
       ELSE /\ timer' = ClearTimer(timer)
            /\ IF deleteImages /\ collectionState.folder # NoFolder
                 THEN /\ cancelling < MaxCancelling
                      /\ cancelling' = cancelling + 1
                      /\ cAct' = "cancel_rm"
                      /\ UNCHANGED <<collectionState, slotBursts, disk>>
                 ELSE /\ collectionState' = InactiveState
                      /\ disk' = saveSchedule(InactiveState)
                      /\ slotBursts' = <<>>
                      /\ cAct' = "cancel"
                      /\ UNCHANGED cancelling
  /\ UNCHANGED <<now, orphans, drivers, cstarting, csaving, resuming, everPaused>>

CancelCollection ==
  /\ \E deleteImages \in BOOLEAN : cancelCollection(deleteImages)
  /\ UNCHANGED <<qvars, xvars, storeOk>>

\* cancelCollection(true) after fs.rm settled: the state is reset
CancelCollectionRemoved ==
  /\ cancelling > 0
  /\ cancelling' = cancelling - 1
  /\ collectionState' = InactiveState
  /\ disk' = saveSchedule(InactiveState)
  /\ slotBursts' = <<>>
  /\ cAct' = "cancel"
  /\ UNCHANGED <<now, timer, orphans, drivers, cstarting, csaving, resuming, everPaused>>
  /\ UNCHANGED <<qvars, xvars, storeOk>>

\* collectedCount++ of captureAndSaveImage()
CountCapture(cs) ==
  [cs EXCEPT !.collectedCount = @ + 1]

\* cameraService.captureFrame() settles in captureAndSaveImage() of invocation d;
\* path.join throws when folderPath is null, and the loop's catch goes on
burstCaptureDone(d, ok) ==
  /\ d.pc = "capture"
  /\ IF ok /\ collectionState.folder # NoFolder
       THEN /\ drivers' = Continue(drivers, d, [d EXCEPT !.pc = "write",
                                                         !.folder = collectionState.folder])
            /\ cAct' = "burst_captured"
            /\ UNCHANGED <<disk, camera>>
       ELSE /\ drivers' = Continue(drivers, d, LoopHead(collectionState, d, d.i + 1))
            /\ disk' = SaveAtLoopEnd(LoopHead(collectionState, d, d.i + 1), collectionState)
            /\ camera' = SetResolution(LoopHead(collectionState, d, d.i + 1), collectionState)
            /\ cAct' = "burst_capture_failed"
  /\ UNCHANGED <<now, collectionState, timer, orphans, cstarting, csaving, resuming,
                 cancelling, slotBursts, everPaused>>

BurstCaptureDone ==
  /\ \E d \in BagToSet(drivers), ok \in BOOLEAN : burstCaptureDone(d, ok)
  /\ UNCHANGED <<qvars, onDemand, gen, trigger, storeOk>>

\* fs.writeFile() settles in captureAndSaveImage() of invocation d
burstWriteDone(d, ok) ==
  /\ d.pc = "write"
  /\ IF ok
       THEN LET cs == CountCapture(collectionState) IN
            /\ collectionState' = cs
            /\ UNCHANGED slotBursts
            /\ drivers' = Continue(drivers, d,
                 IF d.i < d.n - 1
                   THEN [d EXCEPT !.pc = "sleep", !.folder = NoFolder,
                                  !.at = now + (Hour \div d.n)]
                   ELSE LoopHead(cs, d, d.i + 1))
            /\ disk' = IF d.i < d.n - 1
                         THEN disk ELSE SaveAtLoopEnd(LoopHead(cs, d, d.i + 1), cs)
            /\ camera' = IF d.i < d.n - 1
                           THEN camera ELSE SetResolution(LoopHead(cs, d, d.i + 1), cs)
            /\ cAct' = "burst_saved"
       ELSE /\ drivers' = Continue(drivers, d, LoopHead(collectionState, d, d.i + 1))
            /\ disk' = SaveAtLoopEnd(LoopHead(collectionState, d, d.i + 1), collectionState)
            /\ camera' = SetResolution(LoopHead(collectionState, d, d.i + 1), collectionState)
            /\ cAct' = "burst_write_failed"
            /\ UNCHANGED <<collectionState, slotBursts>>
  /\ UNCHANGED <<now, timer, orphans, cstarting, csaving, resuming, cancelling, everPaused>>

BurstWriteDone ==
  /\ \E d \in BagToSet(drivers), ok \in BOOLEAN : burstWriteDone(d, ok)
  /\ UNCHANGED <<qvars, onDemand, gen, trigger, storeOk>>

\* this.sleep(intervalMs) of captureImages() is over for invocation d
BurstSleepDone ==
  /\ \E d \in BagToSet(drivers) :
       /\ d.pc = "sleep"
       /\ d.at <= now
       /\ drivers' = Continue(drivers, d, LoopHead(collectionState, d, d.i + 1))
       /\ disk' = SaveAtLoopEnd(LoopHead(collectionState, d, d.i + 1), collectionState)
       /\ camera' = SetResolution(LoopHead(collectionState, d, d.i + 1), collectionState)
       /\ cAct' = "burst_woke"
       /\ UNCHANGED <<now, collectionState, timer, orphans, cstarting, csaving, resuming,
                      cancelling, slotBursts, everPaused>>
  /\ UNCHANGED <<qvars, onDemand, gen, trigger, storeOk>>

\* captureImages() returned to checkAndCapture() (after its saveSchedule(), or after
\* completeCollection()): the next check is scheduled with the delay computed at entry
BurstReturns ==
  /\ \E d \in BagToSet(drivers) :
       /\ d.pc \in {"saveBurst", "completeBurst"}
       /\ LET r == Rearm(timer, orphans, d.delay, now)
          IN /\ timer' = r.timer
             /\ orphans' = r.orphans
       /\ drivers' = Continue(drivers, d, NoDriver)
       /\ disk' = saveSchedule(collectionState)
       /\ cAct' = "check_rearm_after_burst"
       /\ UNCHANGED <<now, collectionState, cstarting, csaving, resuming, cancelling,
                      slotBursts, everPaused>>
  /\ UNCHANGED <<qvars, xvars, storeOk>>

\* A check interval passes; timeouts fire when due, and captures and file
\* operations take less than a check interval
Tick ==
  /\ now < MaxTime
  /\ timer.st = "pending" => timer.at > now
  /\ \A t \in BagToSet(orphans) : t > now
  /\ \A d \in BagToSet(drivers) : d.pc = "sleep" /\ d.at > now
  /\ cstarting = <<>> /\ csaving = 0 /\ resuming = 0 /\ cancelling = 0
  /\ now' = now + 1
  /\ cAct' = "tick"
  /\ UNCHANGED <<collectionState, timer, orphans, drivers, cstarting, csaving, resuming,
                 cancelling, slotBursts, everPaused, disk>>
  /\ UNCHANGED <<qvars, xvars, storeOk>>

NextCollection ==
  \/ StartCollection
  \/ StartCollectionMkdirDone
  \/ StartCollectionSaved
  \/ PauseCollection
  \/ ResumeCollection
  \/ ResumeCollectionSaved
  \/ CancelCollection
  \/ CancelCollectionRemoved
  \/ DriverTimerFires
  \/ BurstCaptureDone
  \/ BurstWriteDone
  \/ BurstSleepDone
  \/ BurstReturns
  \/ Tick

\* ---------------------------------------- persistence and restart
\* The store is unwritable from the start of the process (a read-only or full
\* volume): every saveSchedule() catches the error and logs it. No step but a
\* restart reads the file, so a store that fails later differs only in the file
StoreBreaks ==
  /\ storeOk
  /\ cAct = "init"
  /\ storeOk' = FALSE
  /\ UNCHANGED <<now, collectionState, timer, orphans, drivers, cstarting, csaving,
                 resuming, cancelling, slotBursts, everPaused, cAct, disk>>
  /\ UNCHANGED <<qvars, xvars>>

\* The times at which a process stopped now is up again: at once, a check
\* interval later, or an hour later
RestartTimes ==
  {t \in {now, now + CheckInterval, now + Hour} : t <= MaxTime}

\* A restart whose init() loads the file but does not start the driver loop
Restart_LoadOnly ==
  \E t \in RestartTimes :
    /\ now' = t
    /\ collectionState' = loadSchedule
    /\ timer' = NullTimer
    /\ orphans' = EmptyBag
    /\ drivers' = EmptyBag
    /\ cstarting' = <<>>
    /\ csaving' = 0
    /\ resuming' = 0
    /\ cancelling' = 0
    /\ slotBursts' = [k \in 1..Len(loadSchedule.captureSchedule) |-> 0]
    /\ everPaused' = loadSchedule.paused
    /\ camera' = CameraOptions
    /\ cAct' = "restart"
    /\ UNCHANGED <<disk, storeOk>>
    /\ UNCHANGED <<qvars, onDemand, gen, trigger>>

\* The process is restarted, at once or after some time down: timers and pending
\* calls are gone with the old process, the constructor sets the default state,
\* and init() loads the file and, if the loaded state is active, calls
\* startScheduledCaptures()
Restart ==
  \E t \in RestartTimes :
    LET r == checkAndCapture(loadSchedule, NullTimer, EmptyBag, t) IN
    /\ now' = t
    /\ collectionState' = r.cs
    /\ timer' = r.timer
    /\ orphans' = r.orphans
    /\ drivers' = Spawn(EmptyBag, r.driver)
    /\ disk' = IF r.op \in {"check_complete", "check_budget_spent", "check_rearm"}
                 THEN saveSchedule(r.cs) ELSE disk
    /\ cstarting' = <<>>
    /\ csaving' = 0
    /\ resuming' = 0
    /\ cancelling' = 0
    /\ slotBursts' = LET zero == [k \in 1..Len(r.cs.captureSchedule) |-> 0]
                     IN IF r.op = "check_burst" THEN NoteBurst(zero, r.driver.slot) ELSE zero
    /\ everPaused' = r.cs.paused
    /\ camera' = IF r.driver.pc = "capture"
                   THEN ParseResolution(r.cs.resolution) ELSE CameraOptions
    /\ cAct' = "restart"
    /\ UNCHANGED storeOk
    /\ UNCHANGED <<qvars, onDemand, gen, trigger>>

NextStore ==
  \/ StartCollection
  \/ StartCollectionMkdirDone
  \/ StartCollectionSaved
  \/ PauseCollection
  \/ ResumeCollection
  \/ ResumeCollectionSaved
  \/ CancelCollection
  \/ CancelCollectionRemoved
  \/ DriverTimerFires
  \/ BurstCaptureDone
  \/ BurstWriteDone
  \/ BurstSleepDone
  \/ BurstReturns
  \/ Tick
  \/ StoreBreaks

NextRestart ==
  \/ StartCollection
  \/ StartCollectionMkdirDone
  \/ StartCollectionSaved
  \/ PauseCollection
  \/ ResumeCollection
  \/ ResumeCollectionSaved
  \/ CancelCollection
  \/ CancelCollectionRemoved
  \/ DriverTimerFires
  \/ BurstCaptureDone
  \/ BurstWriteDone
  \/ BurstSleepDone
  \/ BurstReturns
  \/ Tick
  \/ Restart

\* ---------------------------------------- claims on CollectionScheduler
\* C3: the planner never captures more than its budget: collectedCount <= totalCount
\* in every reachable state, for any interleaving of the driver loop, bursts,
\* pauseCollection, resumeCollection, cancelCollection and startCollection.
C3_CollectedWithinBudget ==
  collectionState.collectedCount <= collectionState.totalCount

\* C4: each generated slot is served by exactly one burst: in a collection that is
\* never paused, no slot is served by a second burst when the driver re-runs inside
\* the same one-hour window.
C4_OneBurstPerSlot ==
  ~everPaused => \A k \in 1..Len(slotBursts) : slotBursts[k] <= 1

\* C5: every generated slot, including the last one, gets its capture burst when
\* the collection stays active and unpaused and budget remains: a collection that
\* was never paused is not completed with budget left and its last slot unserved.
C5_LastSlotServed ==
  (/\ cAct = "check_complete"
   /\ ~everPaused
   /\ collectionState.collectedCount < collectionState.totalCount)
    => slotBursts[Len(slotBursts)] >= 1

\* C15: startCollection with a schedule that yields no future slot fails with the
\* no-valid-slots error and mutates nothing: CollectionState stays as it was
\* (inactive), no folder creation and no write of the schedule file is started, and
\* no driver run or timer is added.
C15_NoSlotsChangesNothing ==
  [][cAct' = "start_noslots" =>
       /\ ~collectionState'.active
       /\ UNCHANGED <<collectionState, timer, orphans, drivers, cstarting, csaving,
                      resuming, cancelling, slotBursts, everPaused, now>>]_vars

C15_Witness ==
  /\ cAct = "start_noslots"
  /\ ~collectionState.active
  /\ collectionState.totalCount > 0
  /\ collectionState.collectedCount > 0

\* C16: startCollection while a collection is active (paused or not) fails with the
\* already-active error and leaves collectedCount, totalCount, slots, folder and
\* the paused flag of the running collection, and everything else, unchanged.
C16_StartWhileActiveChangesNothing ==
  [][(collectionState.active /\ cAct' \in {"start_active", "start_noslots", "start_mkdir"}) =>
       /\ cAct' = "start_active"
       /\ UNCHANGED <<collectionState, timer, orphans, drivers, cstarting, csaving,
                      resuming, cancelling, slotBursts, everPaused, now>>]_vars

C16_Witness ==
  /\ cAct = "start_active"
  /\ collectionState.active
  /\ collectionState.paused
  /\ collectionState.collectedCount > 0

\* The captureFrame() calls of bursts that have not settled, as a bag
CapturesStarted(drv) ==
  [d \in {x \in BagToSet(drv) : x.pc = "capture"} |-> drv[d]]

\* C20: while paused stays true (from pauseCollection() on), no capture is started,
\* neither by the burst in progress nor by any driver run; a burst that wakes from
\* its sleep, or whose capture settles, while paused leaves its loop and returns
\* normally (it goes on to its saveSchedule()).
C20_NoCaptureWhilePaused ==
  [][(collectionState.active /\ collectionState.paused /\ collectionState'.paused) =>
       /\ CapturesStarted(drivers') \sqsubseteq CapturesStarted(drivers)
       /\ cAct' \in {"burst_woke", "burst_capture_failed", "burst_write_failed"} =>
            \E d \in BagToSet(drivers') :
              /\ d.pc = "saveBurst"
              /\ CopiesIn(d, drivers') > CopiesIn(d, drivers)]_vars

C20_Witness ==
  /\ collectionState.active
  /\ collectionState.paused
  /\ cAct = "burst_woke"
  /\ \E d \in BagToSet(drivers) : d.pc = "saveBurst" /\ d.i < d.n
  /\ collectionState.collectedCount < collectionState.totalCount

\* The steps that are a run of checkAndCapture()
CheckOps ==
  {"check_return", "check_complete", "check_budget_spent", "check_burst", "check_rearm"}

\* C21: resumeCollection() on an active, paused collection sets paused to false and
\* leaves the slot list, totalCount, folder and collectedCount as they were, and
\* once its saveSchedule() settled it restarts the driver loop: checkAndCapture()
\* runs, and for a collection still active and unpaused it completes the
\* collection, starts a burst or arms the next check.
C21_ResumeKeepsCollection ==
  /\ [][cAct' = "resume" =>
          /\ collectionState.active /\ collectionState.paused
          /\ collectionState' = [collectionState EXCEPT !.paused = FALSE]
          /\ resuming' = resuming + 1]_vars
  /\ [][resuming' < resuming =>
          /\ cAct' \in CheckOps
          /\ (collectionState.active /\ ~collectionState.paused) =>
                \/ ~collectionState'.active
                \/ timer'.st = "pending"
                \/ BagCardinality(drivers') > BagCardinality(drivers)]_vars

\* A collection with captures counted and slots left has just been resumed
C21_Witness ==
  /\ cAct = "resume"
  /\ collectionState.collectedCount > 0
  /\ Len(collectionState.captureSchedule) > 1
  /\ ~collectionState.paused

\* C22: after cancelCollection() completed, the state is the inactive default and
\* stays so until the next startCollection() sets a new state, whatever was in
\* flight when cancel was called.
C22_CancelledStaysInactive ==
  [][(collectionState = InactiveState /\ cAct' # "start_state")
        => collectionState' = InactiveState]_vars

\* C26: pauseCollection() and cancelCollection() go through only on an active
\* collection and resumeCollection() only on an active, paused one; otherwise they
\* throw, and a throwing call leaves the state, the file and the timer as they were.
C26_RejectedCallsChangeNothing ==
  [][/\ cAct' \in {"pause", "cancel_rm"} => collectionState.active
     /\ (cAct' = "cancel" /\ cancelling' = cancelling) => collectionState.active
     /\ cAct' = "resume" => (collectionState.active /\ collectionState.paused)
     /\ cAct' \in {"pause_throw", "cancel_throw", "resume_throw"} =>
          /\ UNCHANGED <<collectionState, disk, timer, orphans, drivers>>
          /\ UNCHANGED <<cstarting, csaving, resuming, cancelling>>
     /\ cAct' \in {"pause_throw", "cancel_throw"} => ~collectionState.active
     /\ cAct' = "resume_throw" => ~(collectionState.active /\ collectionState.paused)]_vars

\* resumeCollection() has just thrown on an active collection that is not paused,
\* with a check pending and the state on file
C26_Witness ==
  /\ cAct = "resume_throw"
  /\ collectionState.active
  /\ timer.st = "pending"
  /\ disk = <<collectionState>>

\* C23: a restart with a file whose state is active, unpaused and has a slot still
\* in the future resumes the driver loop by itself (a check is armed or a burst is
\* running right after init()), with the slot list and the collectedCount of the file.
C23_RestartResumes ==
  [][(/\ cAct' = "restart"
      /\ disk # <<>>
      /\ disk[1].active /\ ~disk[1].paused
      /\ NextSlotIndex(disk[1].captureSchedule, now') # 0)
       => /\ collectionState'.captureSchedule = disk[1].captureSchedule
          /\ collectionState'.collectedCount = disk[1].collectedCount
          /\ collectionState'.totalCount = disk[1].totalCount
          /\ collectionState'.folder = disk[1].folder
          /\ ~collectionState'.paused
          /\ timer'.st = "pending" \/ drivers' # EmptyBag]_vars

\* A restart has just resumed a collection with captures counted: it is active
\* again with a burst running
C23_Witness ==
  /\ cAct = "restart"
  /\ collectionState.active /\ ~collectionState.paused
  /\ collectionState.collectedCount > 0
  /\ NextSlotIndex(collectionState.captureSchedule, now) # 0
  /\ \E d \in BagToSet(drivers) : d.pc = "capture"

\* C24: the state is persisted after every mutation: right after a burst capture
\* was counted, and so before the burst sleeps or starts its next capture, the
\* collectedCount on file equals the one in memory.
C24_CountPersistedAfterCapture ==
  cAct = "burst_saved" =>
    /\ disk # <<>>
    /\ disk[1].collectedCount = collectionState.collectedCount

\* C25: a failed write of the file neither rolls back nor blocks the change in
\* memory and raises no error: with the store failing, pause, resume, cancel, start
\* and the driver loop make the state changes and arm the timers they make with a
\* working store, the calls throw only for their own preconditions, and the file
\* keeps its content.
C25_FailedWriteIsNotFatal ==
  [][~storeOk =>
       /\ disk' = disk
       /\ cAct' = "pause" =>
            /\ collectionState' = [collectionState EXCEPT !.paused = TRUE]
            /\ timer' = NullTimer
       /\ cAct' = "resume" =>
            /\ collectionState' = [collectionState EXCEPT !.paused = FALSE]
            /\ resuming' = resuming + 1
       /\ cAct' = "cancel" => collectionState' = InactiveState
       /\ (cAct' \in {"cancel", "cancel_rm"} /\ cancelling' >= cancelling) => timer' = NullTimer
       /\ cAct' = "start_state" => collectionState'.active /\ csaving' = csaving + 1
       /\ (csaving' < csaving \/ resuming' < resuming) => cAct' \in CheckOps
       /\ cAct' = "check_rearm" =>
            /\ timer' = [st |-> "pending",
                         at |-> now + Min(collectionState.captureSchedule[
                                  NextSlotIndex(collectionState.captureSchedule, now)] - now,
                                  CheckInterval)]
            /\ collectionState' = collectionState
       /\ cAct' = "check_rearm_after_burst" => timer'.st = "pending" /\ timer'.at > now
       /\ cAct' \in {"check_complete", "check_budget_spent"} => ~collectionState'.active
       /\ cAct' \in {"pause_throw", "cancel_throw"} => ~collectionState.active
       /\ cAct' = "resume_throw" => ~(collectionState.active /\ collectionState.paused)
       /\ cAct' = "start_active" => collectionState.active]_vars

\* With the store failing, a collection that has counted captures has just been
\* paused, and nothing was ever written
C25_Witness ==
  /\ ~storeOk
  /\ cAct = "pause"
  /\ collectionState.paused
  /\ collectionState.collectedCount > 0
  /\ disk = <<>>

\* Driver runs that are pending or under way: a timeout, a burst, or a call that
\* goes on to startScheduledCaptures()
PendingRuns ==
  BagCardinality(drivers) + (IF timer.st = "pending" THEN 1 ELSE 0)
    + BagCardinality(orphans) + csaving + resuming

\* A timeout of the driver loop is due within the time modelled, or a call is
\* about to run startScheduledCaptures()
RunDue ==
  \/ timer.st = "pending" /\ timer.at <= MaxTime
  \/ \E t \in BagToSet(orphans) : t <= MaxTime
  \/ csaving > 0
  \/ resuming > 0

\* C27: an active, unpaused collection completes. A driver run is always pending or
\* under way for it (unless a cancel is removing its folder); a run that finds every
\* slot's timestamp in the past marks it inactive and persists that state; while
\* it stays inactive no capture is started; and once every slot's timestamp is in
\* the past and a run is due, the collection does become inactive (unless it is
\* paused first).
C27_CollectionCompletes ==
  /\ (/\ collectionState.active /\ ~collectionState.paused
      /\ NextSlotIndex(collectionState.captureSchedule, now) = 0
      /\ RunDue)
       ~> (~collectionState.active \/ collectionState.paused)
  /\ []((collectionState.active /\ ~collectionState.paused /\ cancelling = 0)
          => PendingRuns >= 1)
  /\ [][(/\ cAct' \in CheckOps
         /\ collectionState.active /\ ~collectionState.paused
         /\ NextSlotIndex(collectionState.captureSchedule, now) = 0)
          => /\ cAct' = "check_complete"
             /\ collectionState' = [collectionState EXCEPT !.active = FALSE]
             /\ storeOk => disk' = <<collectionState'>>
             /\ timer'.st # "pending"]_vars
  /\ [][(~collectionState.active /\ ~collectionState'.active)
          => CapturesStarted(drivers') \sqsubseteq CapturesStarted(drivers)]_vars

\* A driver run has just completed a collection that counted captures, while a
\* burst of it was still asleep
C27_Witness ==
  /\ cAct = "check_complete"
  /\ ~collectionState.active
  /\ collectionState.collectedCount > 0
  /\ disk = <<collectionState>>
  /\ \E d \in BagToSet(drivers) : d.pc = "sleep"

\* C30: the driver loop runs no later than one check interval after every slot's
\* timestamp while the collection is active and unpaused. A run in that time starts
\* the slot's burst or completes the collection, so in a collection that was never
\* paused and is still active, every slot whose timestamp lies more than a check
\* interval back has had a burst started.
C30_DriverDriftBounded ==
  (collectionState.active /\ ~collectionState.paused /\ ~everPaused) =>
    \A k \in 1..Len(collectionState.captureSchedule) :
      now > collectionState.captureSchedule[k] + CheckInterval => slotBursts[k] >= 1

\* Driver chains that exist: a pending timeout, or a checkAndCapture() invocation
\* that has not returned (its burst is capturing, writing, sleeping or saving)
ExistingChains ==
  BagCardinality(drivers) + (IF timer.st = "pending" THEN 1 ELSE 0)
    + BagCardinality(orphans)

\* C32: while the collection is paused or inactive, no driver timeout is pending.
C32_NoTimerWhilePausedOrInactive ==
  (~collectionState.active \/ collectionState.paused) =>
    (timer.st # "pending" /\ orphans = EmptyBag)

\* C33: at most one driver chain exists at any time.
C33_OneDriverChain ==
  ExistingChains <= 1

\* C35: a burst of a cancelled collection never affects a later collection: an
\* image that an active collection counts was written into that collection's
\* folder.
C35_OldBurstLeavesNewCollection ==
  [][(cAct' = "burst_saved" /\ collectionState.active) =>
       \E d \in BagToSet(drivers) :
         /\ d.pc = "write"
         /\ d.folder = collectionState.folder
         /\ CopiesIn(d, drivers') < CopiesIn(d, drivers)]_vars

\* C38: two overlapping startCollection() calls cannot both succeed: a call
\* initialises the state only when no collection is active.
C38_OneStartCollectionSucceeds ==
  [][cAct' = "start_state" => ~collectionState.active]_vars

\* C39: a paused collection stays paused across a restart: a restart with a file
\* whose state is active and paused loads exactly that state and leaves no timeout
\* and no invocation; and from a paused collection with no driver run pending or
\* under way, no step but resumeCollection() starts a capture or arms a timeout
\* while it stays active and paused.
C39_PausedAcrossRestart ==
  /\ [][(cAct' = "restart" /\ disk # <<>> /\ disk[1].active /\ disk[1].paused) =>
          /\ collectionState' = disk[1]
          /\ timer'.st # "pending"
          /\ orphans' = EmptyBag
          /\ drivers' = EmptyBag]_vars
  /\ [][(/\ collectionState.active /\ collectionState.paused
         /\ PendingRuns = 0
         /\ cAct' # "resume"
         /\ collectionState'.active /\ collectionState'.paused)
          => PendingRuns' = 0]_vars

\* A restart, inside the window of a slot, has just loaded a paused collection
\* that had counted captures
C39_Witness ==
  /\ cAct = "restart"
  /\ collectionState.active /\ collectionState.paused
  /\ collectionState.collectedCount > 0
  /\ disk = <<collectionState>>
  /\ \E k \in 1..Len(collectionState.captureSchedule) :
       /\ now >= collectionState.captureSchedule[k]
       /\ now < collectionState.captureSchedule[k] + Hour
  /\ NextSlotIndex(collectionState.captureSchedule, now) # 0
  /\ PendingRuns = 0

\* ------------------------------------------------------ camera service
\* No request is being served when the server starts
InitCamera ==
  /\ onDemand = 0
  /\ camera = CameraOptions

\* POST /api/camera/capture up to "await this.captureFrame()" of
\* captureFrameWithPreview() (no preview or stream is running)
CaptureRequest ==
  /\ onDemand < MaxOnDemand
  /\ onDemand' = onDemand + 1
  /\ UNCHANGED <<qvars, cvars, gen, trigger, camera>>

\* captureFrame() settles for a POST /api/camera/capture request
CaptureRequestDone ==
  /\ onDemand > 0
  /\ onDemand' = onDemand - 1
  /\ UNCHANGED <<qvars, cvars, gen, trigger, camera>>

\* captureFrame() calls of collection bursts that have not settled
BurstCaptures ==
  BagCardinality([d \in {x \in BagToSet(drivers) : x.pc = "capture"} |-> drivers[d]])

\* cameraService.captureFrame() calls in flight (rpicam-jpeg processes running)
CameraCalls ==
  capturing + BurstCaptures + onDemand

\* The steps that start, settle or lead to a captureFrame() call: the detection
\* trigger chain, the collection driver with its bursts, and the capture request
NextCamera ==
  \/ Start
  \/ StartResume
  \/ TimerFires
  \/ CaptureDone
  \/ StartCollection
  \/ StartCollectionMkdirDone
  \/ StartCollectionSaved
  \/ DriverTimerFires
  \/ BurstCaptureDone
  \/ BurstWriteDone
  \/ BurstSleepDone
  \/ BurstReturns
  \/ Tick
  \/ CaptureRequest
  \/ CaptureRequestDone

\* --------------------------------------------- claims on the camera service
\* C14: no two camera capture calls overlap in time: the detection trigger chain,
\* the collection burst and the on-demand single capture never have captureFrame()
\* calls in flight simultaneously.
C14_NoOverlappingCaptures ==
  CameraCalls <= 1

\* C40: a collection capture leaves the camera configuration (width/height) used
\* by detection captures unchanged: every detection capture calls captureFrame()
\* with the width and height the camera service was constructed with, also after
\* a collection capture.
C40_DetectionResolutionUnchanged ==
  [][(lastAct'.op = "timer" /\ capturing' > capturing) => camera' = CameraOptions]_vars

\* ------------------------------------------- capture triggers on the clock
\* Times at which start() is called, and the time a captureImage() call takes
\* until it settles (rpicam-jpeg runs for 2000 ms; 0: the call fails at once), in ms
StartTimes == {0, 1000}
CaptureDurations == {0, 2000, 3000}

InitTrigger ==
  trigger = [st |-> "idle", clock |-> 0, start |-> 0, due |-> 0, k |-> 0,
             interval |-> DefaultInterval]

\* start() at time t: scheduleNextCapture() arms the first timeout
TriggerStart ==
  /\ trigger.st = "idle"
  /\ \E t \in StartTimes, c \in Configs :
       trigger' = [st |-> "armed", clock |-> t, start |-> t, due |-> t + c.interval,
                   k |-> 0, interval |-> c.interval]
  /\ UNCHANGED <<qvars, cvars, onDemand, gen, camera>>

\* The timeout fires when it is due: trigger k + 1 calls captureImage()
TriggerFires ==
  /\ trigger.st = "armed"
  /\ trigger.k < MaxTriggers
  /\ trigger' = [trigger EXCEPT !.st = "capturing", !.clock = trigger.due, !.k = @ + 1]
  /\ UNCHANGED <<qvars, cvars, onDemand, gen, camera>>

\* captureImage() settles after dur ms, resolved or rejected, and the callback
\* calls scheduleNextCapture(): setTimeout(..., this.interval) from that moment
TriggerCaptureDone ==
  /\ trigger.st = "capturing"
  /\ \E dur \in CaptureDurations :
       trigger' = [trigger EXCEPT !.st = "armed", !.clock = @ + dur,
                                  !.due = trigger.clock + dur + trigger.interval]
  /\ UNCHANGED <<qvars, cvars, onDemand, gen, camera>>

NextTrigger ==
  \/ TriggerStart
  \/ TriggerFires
  \/ TriggerCaptureDone

\* C29: capture triggers do not drift: the k-th trigger fires at
\* start + k * interval, whatever time the captures before it took.
C29_TriggersDoNotDrift ==
  trigger.st = "capturing" => trigger.clock = trigger.start + trigger.k * trigger.interval

\* -------------------------------------------------- schedule generation
Days == 0..MaxDay

\* Lists of distinct dates
DateLists ==
  {<<>>} \cup {<<a>> : a \in Days} \cup {x \in Days \X Days : x[1] # x[2]}

HourLists == {<<>>, <<9>>, <<2, 3>>, <<9, 2>>, <<3, 9>>}
WeekdaySets == {{}, {3}, {1, 3}, 0..6}
Monday == 1
Wednesday == 3

GenConfigs ==
  [scheduleType : {"dates"}, dates : DateLists, hours : HourLists, weekdays : {{}},
   startDate : {0}, endDate : {0}, totalImages : TotalChoices]
  \cup
  [scheduleType : {"weekdays"}, dates : {<<>>}, hours : HourLists, weekdays : WeekdaySets,
   startDate : Days, endDate : Days, totalImages : TotalChoices]

\* Values of new Date(): the start of day 0, and the instants of hours 2 and 9 of
\* days 0 and 1 (without a skipped hour) and one check interval after them
GenNows ==
  {0} \cup {Hour * (HoursPerDay * d + h) + e : d \in 0..1, h \in {2, 9}, e \in {0, 1}}

NoGen ==
  [called |-> FALSE, config |-> CHOOSE c \in ScheduleConfigs : TRUE, now |-> 0, tz |-> UTC,
   schedule |-> <<>>]

InitSchedule ==
  gen = NoGen

\* generateCaptureSchedule(config) is called, at some time in some time zone
GenerateSchedule ==
  /\ ~gen.called
  /\ \E config \in GenConfigs, t \in GenNows, tz \in TimeZones :
       gen' = [called |-> TRUE, config |-> config, now |-> t, tz |-> tz,
               schedule |-> generateCaptureSchedule(config, t, tz)]
  /\ UNCHANGED <<qvars, cvars, onDemand, trigger, camera>>

NextSchedule ==
  GenerateSchedule

\* ---------------------------------------- claims on schedule generation
Range(f) ==
  {f[k] : k \in DOMAIN f}

\* The days of the request: the explicit dates, or the days of [startDate, endDate]
\* whose weekday is requested
RequestedDays(config) ==
  IF config.scheduleType = "dates"
    THEN Range(config.dates)
    ELSE {d \in config.startDate..config.endDate : (d % 7) \in config.weekdays}

\* The (day, hour) pairs of the request whose instant is strictly after t
FuturePairs(config, t, tz) ==
  {p \in RequestedDays(config) \X Range(config.hours) : setHours(tz, p[1], p[2]) > t}

\* C17: for N distinct explicit dates and M distinct hours all in the future,
\* generateCaptureSchedule returns exactly N*M slots, exactly one per (date, hour)
\* pair, ordered strictly ascending by timestamp.
C17_DatesTimesHours ==
  LET c == gen.config
      s == gen.schedule
  IN (/\ gen.called
      /\ c.scheduleType = "dates"
      /\ \A d \in Range(c.dates), h \in Range(c.hours) : setHours(gen.tz, d, h) > gen.now)
     => /\ Len(s) = Len(c.dates) * Len(c.hours)
        /\ \A d \in Range(c.dates), h \in Range(c.hours) :
             Cardinality({k \in 1..Len(s) : s[k].date = d /\ s[k].hour = h}) = 1
        /\ \A k \in 1..(Len(s) - 1) : s[k].timestamp < s[k + 1].timestamp

\* C18: slot generation keeps a (date, hour) pair if and only if its instant is
\* strictly greater than now at generation time, in explicit-dates mode and in
\* weekday-range mode: every slot is after now and is the slot of a requested pair,
\* and a requested pair has its slot in the schedule exactly when its instant is
\* after now (a pair whose instant equals or precedes now has none).
C18_OnlyFutureKept ==
  LET c == gen.config
      s == gen.schedule
  IN gen.called =>
       /\ \A k \in 1..Len(s) :
            /\ s[k].timestamp > gen.now
            /\ \E p \in RequestedDays(c) \X Range(c.hours) : s[k] = Slot(c, gen.tz, p[1], p[2])
       /\ \A p \in RequestedDays(c) \X Range(c.hours) :
            (setHours(gen.tz, p[1], p[2]) > gen.now)
              <=> (\E k \in 1..Len(s) : s[k] = Slot(c, gen.tz, p[1], p[2]))

C18_Witness ==
  /\ gen.called
  /\ gen.config.scheduleType = "weekdays"
  /\ \E p \in RequestedDays(gen.config) \X Range(gen.config.hours) :
       setHours(gen.tz, p[1], p[2]) = gen.now
  /\ \E p \in RequestedDays(gen.config) \X Range(gen.config.hours) :
       setHours(gen.tz, p[1], p[2]) < gen.now
  /\ Len(gen.schedule) >= 2

\* C19: in weekday-range mode the generated slots are exactly the future instants
\* of {days d in [startDate, endDate] inclusive with weekday(d) in weekdays} x hours,
\* one slot per such pair; a 7-day future window with weekdays {Monday, Wednesday}
\* and hours {9} yields exactly 2 slots.
C19_WeekdayRange ==
  LET c == gen.config
      s == gen.schedule
      pairs == FuturePairs(c, gen.now, gen.tz)
  IN (gen.called /\ c.scheduleType = "weekdays") =>
       /\ Range(Timestamps(s)) = {setHours(gen.tz, p[1], p[2]) : p \in pairs}
       /\ Len(s) = Cardinality(pairs)
       /\ (/\ c.endDate = c.startDate + 6
           /\ c.weekdays = {Monday, Wednesday}
           /\ c.hours = <<9>>
           /\ setHours(gen.tz, c.startDate, 0) > gen.now) => Len(s) = 2

C19_Witness ==
  /\ gen.called
  /\ gen.config.scheduleType = "weekdays"
  /\ gen.config.endDate = gen.config.startDate + 6
  /\ gen.config.weekdays = {Monday, Wednesday}
  /\ gen.config.hours = <<9>>
  /\ setHours(gen.tz, gen.config.startDate, 0) > gen.now
  /\ gen.tz.gapDay # NoGap
  /\ Len(gen.schedule) = 2

Init ==
  InitQueue /\ InitCollection /\ InitCamera /\ InitSchedule /\ InitTrigger

NextQueue ==
  \/ Start
  \/ StartResume
  \/ Stop
  \/ TimerFires
  \/ CaptureDone
  \/ WorkerWakes
  \/ PredictDone
  \/ SaveDone

Next ==
  NextQueue

Spec ==
  Init /\ [][Next]_vars

SpecCollection ==
  Init /\ [][NextCollection]_vars

\* Awaited operations settle (each predict() call returns), and timeouts fire;
\* nothing is assumed about the calls of start() and stop()
FairQueue ==
  /\ WF_vars(StartResume)
  /\ WF_vars(TimerFires)
  /\ WF_vars(CaptureDone)
  /\ WF_vars(WorkerWakes)
  /\ WF_vars(PredictDone)
  /\ WF_vars(SaveDone)

SpecQueueFair ==
  Init /\ [][Next]_vars /\ FairQueue

\* Timeouts fire when due, awaited operations settle and time passes; nothing is
\* assumed about the calls of the API
FairCollection ==
  /\ WF_vars(StartCollectionMkdirDone)
  /\ WF_vars(StartCollectionSaved)
  /\ WF_vars(ResumeCollectionSaved)
  /\ WF_vars(CancelCollectionRemoved)
  /\ WF_vars(DriverTimerFires)
  /\ WF_vars(BurstCaptureDone)
  /\ WF_vars(BurstWriteDone)
  /\ WF_vars(BurstSleepDone)
  /\ WF_vars(BurstReturns)
  /\ WF_vars(Tick)

SpecCollectionFair ==
  Init /\ [][NextCollection]_vars /\ FairCollection

SpecCamera ==
  Init /\ [][NextCamera]_vars

SpecStore ==
  Init /\ [][NextStore]_vars

SpecRestart ==
  Init /\ [][NextRestart]_vars

SpecTrigger ==
  Init /\ [][NextTrigger]_vars

SpecSchedule ==
  Init /\ [][NextSchedule]_vars

TypeOK ==
  /\ isRunning \in BOOLEAN
  /\ cfg \in Configs
  /\ Len(queue) <= MaxItems
  /\ captureTimer \in {"null", "pending", "fired"}
  /\ idling \in 0..MaxWorkers
  /\ \A w \in busy : w.pc \in {"predict", "save"} /\ w.item \in Items
  /\ now \in 0..MaxTime
  /\ timer.st \in {"null", "pending", "stale"}
  /\ \A d \in BagToSet(drivers) : d.pc \in
        {"capture", "write", "sleep", "saveBurst", "completeBurst"}
  /\ onDemand \in 0..MaxOnDemand
  /\ camera \in {CameraOptions} \cup {ParseResolution(res) : res \in Resolutions}
  /\ storeOk \in BOOLEAN
  /\ Len(disk) <= 1
  /\ trigger.st \in {"idle", "armed", "capturing"}
  /\ trigger.k \in 0..MaxTriggers
====
